---------------------------- MODULE Spec2Model ----------------------------
(***************************************************************************)
(* Model of playlist_fetcher.py: main() probes yt-dlp, runs the            *)
(* multi-strategy discovery of extract_channel_playlists, optionally       *)
(* enriches every playlist with get_playlist_info and writes the report.   *)
(* Every subprocess call is one step; its outcome (exit status, timeout,   *)
(* error, output) is chosen by the environment.  Strings are TLA+ strings  *)
(* and the string tests of the code are computed character by character.   *)
(***************************************************************************)
EXTENDS Integers, Sequences, FiniteSets, TLC

(***************************************************************************)
(* String primitives of Python used by the code.                           *)
(***************************************************************************)
\* str.strip() removes these characters from both ends.
Whitespace == {" ", "\t"}

\* The positions at which sub occurs in s.
Occurs(s, sub) ==
  {i \in 1..(Len(s) - Len(sub) + 1) : SubSeq(s, i, i + Len(sub) - 1) = sub}

\* sub in s
Contains(s, sub) == Occurs(s, sub) # {}

\* s.startswith(p)
StartsWith(s, p) == Len(s) >= Len(p) /\ SubSeq(s, 1, Len(p)) = p

\* s.endswith(p)
EndsWith(s, p) == Len(s) >= Len(p) /\ SubSeq(s, Len(s) - Len(p) + 1, Len(s)) = p

\* The position of the first occurrence of sub in s (sub occurs in s).
FirstAt(s, sub) == CHOOSE i \in Occurs(s, sub) : \A j \in Occurs(s, sub) : i <= j

\* s.split(sep)[0]: the text before the first sep, all of s when there is none.
SplitHead(s, sep) ==
  IF Contains(s, sep) THEN SubSeq(s, 1, FirstAt(s, sep) - 1) ELSE s

\* s.split(sep)[1]: the text between the first sep and the next one (sep occurs in s).
SplitSecond(s, sep) ==
  SplitHead(SubSeq(s, FirstAt(s, sep) + Len(sep), Len(s)), sep)

RECURSIVE LStrip(_)
LStrip(s) ==
  IF s = "" THEN ""
  ELSE IF SubSeq(s, 1, 1) \in Whitespace THEN LStrip(SubSeq(s, 2, Len(s)))
  ELSE s

RECURSIVE RStrip(_)
RStrip(s) ==
  IF s = "" THEN ""
  ELSE IF SubSeq(s, Len(s), Len(s)) \in Whitespace THEN RStrip(SubSeq(s, 1, Len(s) - 1))
  ELSE s

\* s.strip()
Strip(s) == LStrip(RStrip(s))

(***************************************************************************)
(* Constants of the program.                                               *)
(***************************************************************************)
\* The marker tested by '"playlist?list=" in line'.
Marker == "playlist?list="

\* The length a bare "PL" identifier must exceed.
MinIdLen == 10

\* The command-line argument channel_url.
ChannelUrl == "https://www.youtube.com/@channel"

\* The three URL variants, in the order they are tried.
channel_urls_to_try ==
  << ChannelUrl \o "/playlists", ChannelUrl \o "/videos", ChannelUrl >>

\* The --print templates of the three extraction methods, in order.
methods == << "%(playlist_url)s", "%(webpage_url)s", "%(id)s" >>

(***************************************************************************)
(* Bounds and the outputs the external tool is let to produce.             *)
(***************************************************************************)
\* Most lines in one stdout when the tool's output varies from call to call.
MaxLines == 1

\* Most lines in the stdout of a stub that answers every call alike.
MaxStubLines == 2

\* The four lines of the stub of the specification's example.
StubLines ==
  << "https://www.youtube.com/playlist?list=PLabc1234567", "NA", "",
     "PLxyz7654321extra" >>

\* An output that names one playlist twice, between blank lines.
RepeatLines == << "", "PLxyz7654321extra", "PLxyz7654321extra", " " >>

WatchLine == "https://www.youtube.com/watch?v=abc123&list=PLfoo1234567&index=3"

\* Lines the tool may print for a --print template.
Lines ==
  { "https://www.youtube.com/playlist?list=PLabc1234567",
    "NA",
    "",
    "PLxyz7654321extra",
    WatchLine,
    "https://www.youtube.com/playlist?list=PLabc1234567&si=x",
    "https://www.youtube.com/watch?v=abc123&list=NA",
    "PLshort",
    " PLabc1234567\t",
    "https://www.youtube.com/watch?v=abc123" }

\* The stdouts of a --print call, as sequences of lines, of at most n free lines.
StdoutsUpTo(n) ==
  UNION {[1..k -> Lines] : k \in 0..n}
    \cup {StubLines, RepeatLines}

Stdouts == StdoutsUpTo(MaxLines)

\* A JSON value of a record's member: a string, a number, null, or no member.
Str(s) == [t |-> "str", s |-> s, n |-> 0]
Num(n) == [t |-> "num", s |-> "", n |-> n]
Null == [t |-> "null", s |-> "", n |-> 0]
Absent == [t |-> "absent", s |-> "", n |-> 0]

\* One line of --dump-json output: text that does not decode, a JSON array,
\* or a JSON object with the members the code reads.
Invalid == [kind |-> "invalid", obj |-> <<>>]
Array == [kind |-> "array", obj |-> <<>>]
Entry(url, webpage_url, original_url, id) ==
  [kind |-> "object",
   obj |-> [url |-> url, webpage_url |-> webpage_url,
            original_url |-> original_url, id |-> id]]

\* Lines the tool may print for the fallback --dump-json call.
JsonLines ==
  { Invalid,
    Array,
    Entry(Str("https://www.youtube.com/playlist?list=PLjson1234567"), Absent,
          Absent, Str("PLjson1234567")),
    Entry(Absent, Absent, Absent, Str("PLshort")),
    Entry(Absent, Str("https://www.youtube.com/watch?v=abc123"), Absent,
          Str("UCchannel")),
    Entry(Null, Absent, Str("https://www.youtube.com/playlist?list=NA"), Absent),
    Entry(Absent, Absent, Absent, Num(5)),
    Entry(Absent, Absent, Absent, Str("PLxyz7654321extra")) }

\* The stdouts of the fallback call, as sequences of lines, of at most n free lines.
JsonStdoutsUpTo(n) ==
  UNION {[1..k -> JsonLines] : k \in 0..n}
    \cup {<< Entry(Absent, Absent, Absent, Str("PLxyz7654321extra")), Invalid,
             Entry(Str("https://www.youtube.com/playlist?list=PLjson1234567"), Absent,
                   Absent, Str("PLjson1234567")) >>,
          << Entry(Str("https://www.youtube.com/playlist?list=PLjson1234567"), Absent,
                   Absent, Num(5)),
             Entry(Absent, Absent, Absent, Str("PLxyz7654321extra")) >>}

JsonStdouts == JsonStdoutsUpTo(MaxLines)

\* The first line of get_playlist_info's --dump-json output.
Playlist(title, id, count, uploader) ==
  [kind |-> "object",
   obj |-> [playlist_title |-> title, playlist_id |-> id,
            playlist_count |-> count, playlist_uploader |-> uploader]]

Empty == [kind |-> "empty", obj |-> <<>>]

InfoLines ==
  { Empty, Invalid, Array,
    Playlist(Absent, Str("PLabc1234567"), Num(7), Absent) }

(***************************************************************************)
(* The program's state.                                                    *)
(***************************************************************************)
VARIABLES
  detailed,        \* args.detailed
  pc,              \* where main is: "check", "strategies", "fallback", "enrich", "save", "exit"
  available,       \* what check_yt_dlp returned: "unchecked", "yes", "no"
  url_i,           \* index into channel_urls_to_try of the URL variant being tried
  method_i,        \* index into methods of the extraction method being tried
  all_playlists,   \* the set all_playlists
  result,          \* how the last subprocess.run of the discovery ended
  printStub,       \* << s >> when a stub prints s for every --print call, << >> with the real tool
  jsonStub,        \* << j >> when a stub prints j for the fallback call, << >> with the real tool
  attempted,       \* the (URL variant, method) pairs invoked so far, in order
  fallbackTried,   \* whether the --dump-json fallback call was invoked
  readded,         \* whether some call added a URL that was already in the set
  returned,        \* whether extract_channel_playlists has returned
  playlist_urls,   \* the list it returned
  playlists_info,  \* the list playlists_info of main
  infoCalls,       \* number of get_playlist_info invocations
  uncaught,        \* the function an exception escaped from, "none" if none did
  written,         \* whether save_playlist_links wrote the output file
  exitCode         \* the process's exit code, -1 while it runs

vars ==
  << detailed, pc, available, url_i, method_i, all_playlists, result, printStub,
     jsonStub, attempted, fallbackTried, readded, returned, playlist_urls, playlists_info, infoCalls,
     uncaught, written, exitCode >>

\* The state when main starts, but for the tool's outputs.
Start ==
  /\ detailed \in BOOLEAN
  /\ pc = "check"
  /\ available = "unchecked"
  /\ url_i = 1
  /\ method_i = 1
  /\ all_playlists = {}
  /\ result = "none"
  /\ attempted = <<>>
  /\ fallbackTried = FALSE
  /\ readded = FALSE
  /\ returned = FALSE
  /\ playlist_urls = <<>>
  /\ playlists_info = <<>>
  /\ infoCalls = 0
  /\ uncaught = "none"
  /\ written = FALSE
  /\ exitCode = -1

\* The tool's output is free to differ from call to call.
Init ==
  /\ Start
  /\ printStub = <<>>
  /\ jsonStub = <<>>

(***************************************************************************)
(* check_yt_dlp and the start of main.                                     *)
(***************************************************************************)
\* check_yt_dlp: True when the version probe ran and exited 0; a non-zero
\* exit (CalledProcessError) and a missing binary (FileNotFoundError) give False.
check_yt_dlp(outcome) == outcome = "ok"

\* Mutant: main goes on whatever the probe said.
ExitsNever(ok) == FALSE

\* main: 'if not check_yt_dlp(): sys.exit(1)'.
ExitsWhenUnavailable(ok) == ~ok

CheckYtDlp ==
  /\ pc = "check"
  /\ \E outcome \in {"ok", "nonzero", "notfound"} :
       LET ok == check_yt_dlp(outcome) IN
         /\ available' = IF ok THEN "yes" ELSE "no"
         /\ IF ExitsWhenUnavailable(ok)
              THEN pc' = "exit" /\ exitCode' = 1
              ELSE pc' = "strategies" /\ exitCode' = exitCode
  /\ UNCHANGED << detailed, url_i, method_i, all_playlists, result, printStub,
                  jsonStub, attempted, fallbackTried, readded, returned, playlist_urls,
                  playlists_info, infoCalls, uncaught, written >>

(***************************************************************************)
(* extract_channel_playlists: the line recognizer.                         *)
(***************************************************************************)
\* Mutant: another host in the template.
PlaylistUrlOtherHost(id) == "https://youtube.com/playlist?list=" \o id

\* f"https://www.youtube.com/playlist?list={id}"
PlaylistUrl(id) == "https://www.youtube.com/playlist?list=" \o id

\* Mutant: the identifier is not cut at the next "&".
ExtractListIdToEnd(line) == SplitSecond(line, "list=")

\* line.split("list=")[1].split("&")[0]
ExtractListId(line) == SplitHead(SplitSecond(line, "list="), "&")

\* The body of 'for line in lines': the URLs one output line adds.
RecognizeLine(raw) ==
  LET line == Strip(raw) IN
    IF line = "" \/ line = "NA" THEN {}
    ELSE IF Contains(line, Marker) THEN {line}
    ELSE IF StartsWith(line, "PL") /\ Len(line) > MinIdLen THEN {PlaylistUrl(line)}
    ELSE IF Contains(line, "watch?v=") /\ Contains(line, "&list=")
      THEN IF Contains(line, "list=") THEN {PlaylistUrl(ExtractListId(line))} ELSE {}
    ELSE {}

\* Every line of the sample outputs.
SampleLines ==
  Lines \cup {StubLines[i] : i \in 1..Len(StubLines)}
        \cup {RepeatLines[i] : i \in 1..Len(RepeatLines)}

\* The sample lines that strip() leaves empty.
BlankLines == {l \in SampleLines : Strip(l) = ""}

\* result.stdout.strip() is not empty.
HasText(stdout) == \E i \in 1..Len(stdout) : stdout[i] \notin BlankLines

\* The recognizer's answer for each of the sample lines.
LineUrls == [l \in SampleLines |-> RecognizeLine(l)]

\* What a call's result adds to all_playlists:
\* 'if result.returncode == 0 and result.stdout.strip(): for line in lines: ...'.
ParseResult(status, stdout) ==
  IF status = "ok" /\ HasText(stdout)
    THEN UNION {LineUrls[stdout[i]] : i \in 1..Len(stdout)}
    ELSE {}

(***************************************************************************)
(* extract_channel_playlists: post-processing and return, and main up to   *)
(* its next call.                                                          *)
(***************************************************************************)
\* Mutant: the "NA" sentinel is not tested.
IsValidWithoutSentinel(url) == url # "" /\ Contains(url, Marker)

\* 'if url and "playlist?list=" in url and not url.endswith("NA")'
IsValid(url) == url # "" /\ Contains(url, Marker) /\ ~EndsWith(url, "NA")

valid_playlists(acc) == {url \in acc : IsValid(url)}

\* Mutant: a list that URLs were appended to, with a repeat.
ListWithRepeat(S) ==
  IF S = {} THEN {<<>>}
  ELSE {f \in [1..(Cardinality(S) + 1) -> S] : \A x \in S : \E i \in DOMAIN f : f[i] = x}

\* list(valid_playlists): the elements of the set, once each, in any order.
ListOf(S) ==
  {f \in [1..Cardinality(S) -> S] : \A i, j \in 1..Cardinality(S) : i # j => f[i] # f[j]}

\* main's basic-mode record of the i-th URL.
BasicInfo(i, url) ==
  [title |-> Str("Playlist " \o ToString(i)),
   id |-> Str(IF Contains(url, "list=") THEN ExtractListId(url) ELSE ""),
   video_count |-> Num(0),
   uploader |-> Str("Unknown"),
   url |-> url]

\* The return of extract_channel_playlists with accumulated set acc, and main
\* from there to its next call or to its exit.
Return(acc) ==
  /\ returned' = TRUE
  /\ \E urls \in ListOf(valid_playlists(acc)) :
       /\ playlist_urls' = urls
       /\ IF urls = <<>>
            THEN pc' = "exit" /\ exitCode' = 1 /\ playlists_info' = playlists_info
            ELSE /\ exitCode' = exitCode
                 /\ IF detailed
                      THEN pc' = "enrich" /\ playlists_info' = <<>>
                      ELSE /\ pc' = "save"
                           /\ playlists_info' = [i \in 1..Len(urls) |-> BasicInfo(i, urls[i])]

(***************************************************************************)
(* extract_channel_playlists: the strategy loop.                           *)
(***************************************************************************)
\* Mutant: the method loop is never left early.
BreaksNever(acc) == FALSE

\* The comment's "if we found playlists with this method, continue to next
\* URL": 'if all_playlists: break'.
BreaksMethods(acc) == acc # {}

\* Mutant: the fallback call is never made.
NeedsFallbackNever(acc) == FALSE

\* 'if not all_playlists:' before the fallback call.
NeedsFallback(acc) == acc = {}

\* Mutant: the try block is inside the method loop, so that an exception
\* skips one pair only.
NextMethodAfterAnyStatus(status, acc, m) == ~(acc # {}) /\ m < Len(methods)

\* Whether the loop goes on with the next method of the same URL variant
\* after a call with this status left acc accumulated: an exception leaves
\* the 'for method_command' loop for the handlers around it, which continue
\* with the next URL.
NextMethodSameUrl(status, acc, m) ==
  /\ status \in {"ok", "nonzero"}
  /\ ~BreaksMethods(acc)
  /\ m < Len(methods)

\* The stdouts a --print call that exits 0 can have in this run.
PrintOutputs == IF printStub = <<>> THEN Stdouts ELSE {printStub[1]}

\* One subprocess.run of the loop with its parsing, up to the next call.
TryStrategy ==
  /\ pc = "strategies"
  /\ \E status \in {"ok", "nonzero", "timeout", "error"} :
     \E stdout \in IF status = "ok" THEN PrintOutputs ELSE {<<>>} :
       LET added == ParseResult(status, stdout)
           acc == all_playlists \cup added
       IN
         /\ attempted' = Append(attempted, <<url_i, method_i>>)
         /\ all_playlists' = acc
         /\ readded' = (readded \/ added \cap all_playlists # {})
         /\ result' = status
         /\ IF NextMethodSameUrl(status, acc, method_i)
              THEN /\ method_i' = method_i + 1
                   /\ UNCHANGED << url_i, pc, returned, playlist_urls,
                                   playlists_info, exitCode >>
              ELSE IF url_i < Len(channel_urls_to_try)
                THEN /\ url_i' = url_i + 1
                     /\ method_i' = 1
                       /\ UNCHANGED << pc, returned, playlist_urls,
                                     playlists_info, exitCode >>
              ELSE IF NeedsFallback(acc)
                THEN /\ pc' = "fallback"
                       /\ UNCHANGED << url_i, method_i, returned, playlist_urls,
                                     playlists_info, exitCode >>
              ELSE /\ Return(acc)
                   /\ UNCHANGED << url_i, method_i >>
  /\ UNCHANGED << detailed, available, printStub, jsonStub, fallbackTried,
                  infoCalls, uncaught, written >>

(***************************************************************************)
(* extract_channel_playlists: the --dump-json fallback.                    *)
(***************************************************************************)
\* 'field in data and data[field]'
Truthy(v) ==
  \/ v.t = "str" /\ v.s # ""
  \/ v.t = "num" /\ v.n # 0

\* The URL members that are read, in order.
url_fields == << "url", "webpage_url", "original_url" >>

\* A member for which the code's string test raises: '"playlist?list=" in 5'
\* is a TypeError, (5).startswith an AttributeError.
RaisesOn(data) ==
  \/ \E k \in 1..Len(url_fields) : LET v == data.obj[url_fields[k]] IN
       Truthy(v) /\ v.t # "str"
  \/ Truthy(data.obj.id) /\ data.obj.id.t # "str"

\* "if 'id' in data and data['id'] and data['id'].startswith('PL')"
IdAccepted(v) == Truthy(v) /\ StartsWith(v.s, "PL")

\* The URLs one decoded JSON line adds (no member of it raises).
RecognizeJson(data) ==
  IF data.kind # "object" THEN {}
  ELSE {data.obj[url_fields[k]].s : k \in
          {k \in 1..Len(url_fields) :
             LET v == data.obj[url_fields[k]] IN Truthy(v) /\ Contains(v.s, Marker)}}
       \cup (IF IdAccepted(data.obj.id) THEN {PlaylistUrl(data.obj.id.s)} ELSE {})

\* Whether processing JSON line data ends the loop with an exception that the
\* 'except Exception' around the fallback catches.
JsonRaises(data) == data.kind = "object" /\ RaisesOn(data)

\* The URL members of data added before its id raises.
BeforeRaise(data) ==
  {data.obj[url_fields[k]].s : k \in
     {k \in 1..Len(url_fields) :
        /\ \A h \in 1..k : LET w == data.obj[url_fields[h]] IN ~(Truthy(w) /\ w.t # "str")
        /\ LET v == data.obj[url_fields[k]] IN Truthy(v) /\ Contains(v.s, Marker)}}

\* What the fallback's result adds: the lines up to the first that raises.
RECURSIVE ParseJson(_)
ParseJson(stdout) ==
  IF stdout = <<>> THEN {}
  ELSE IF JsonRaises(Head(stdout)) THEN BeforeRaise(Head(stdout))
  ELSE RecognizeJson(Head(stdout)) \cup ParseJson(Tail(stdout))

\* 'if result.returncode == 0 and result.stdout.strip(): for line in ...'
ParseJsonResult(status, stdout) ==
  IF status = "ok" /\ stdout # <<>> THEN ParseJson(stdout) ELSE {}

\* The stdouts a fallback call that exits 0 can have in this run.
JsonOutputs == IF jsonStub = <<>> THEN JsonStdouts ELSE {jsonStub[1]}

\* The fallback call, its parsing, the post-processing and the return.
FallbackDump ==
  /\ pc = "fallback"
  /\ \E status \in {"ok", "nonzero", "timeout", "error"} :
     \E stdout \in IF status = "ok" THEN JsonOutputs ELSE {<<>>} :
       LET added == ParseJsonResult(status, stdout)
           acc == all_playlists \cup added
       IN
         /\ fallbackTried' = TRUE
         /\ all_playlists' = acc
         /\ result' = status
         /\ Return(acc)
  /\ UNCHANGED << detailed, available, url_i, method_i, printStub, jsonStub,
                  attempted, readded, infoCalls, uncaught, written >>

(***************************************************************************)
(* get_playlist_info.                                                      *)
(***************************************************************************)
\* The exception the try body raises, "none" when it raises none:
\* subprocess.run(check=True, timeout=30), then json.loads of the first line
\* when it is not empty, then playlist_data.get.
TryBodyException(outcome, first_line) ==
  CASE outcome = "nonzero" -> "CalledProcessError"
    [] outcome = "timeout" -> "TimeoutExpired"
    [] outcome = "notfound" -> "FileNotFoundError"
    [] outcome = "ok" /\ first_line.kind = "invalid" -> "JSONDecodeError"
    [] outcome = "ok" /\ first_line.kind = "array" -> "AttributeError"
    [] OTHER -> "none"

\* except (subprocess.CalledProcessError, json.JSONDecodeError, subprocess.TimeoutExpired)
Caught(exc) == exc \in {"CalledProcessError", "JSONDecodeError", "TimeoutExpired"}

\* playlist_data.get(key, default)
Get(v, default) == IF v.t = "absent" THEN default ELSE v

\* The record built from the decoded first line.
ParsedInfo(data, playlist_url) ==
  [title |-> Get(data.obj.playlist_title, Str("Unknown")),
   id |-> Get(data.obj.playlist_id, Str("")),
   video_count |-> Get(data.obj.playlist_count, Num(0)),
   uploader |-> Get(data.obj.playlist_uploader, Str("Unknown")),
   url |-> playlist_url]

\* The fallback record, its id taken from the URL.
FallbackInfo(playlist_url) ==
  [title |-> Str("Unknown"),
   id |-> Str(IF Contains(playlist_url, "list=") THEN ExtractListId(playlist_url) ELSE ""),
   video_count |-> Num(0),
   uploader |-> Str("Unknown"),
   url |-> playlist_url]

\* One iteration of main's detailed loop: get_playlist_info on the next URL.
GetPlaylistInfo ==
  /\ pc = "enrich"
  /\ \E outcome \in {"ok", "nonzero", "timeout", "notfound"} :
     \E first_line \in IF outcome = "ok" THEN InfoLines ELSE {Empty} :
       LET url == playlist_urls[Len(playlists_info) + 1]
           exc == TryBodyException(outcome, first_line)
           info == IF exc = "none" /\ first_line.kind = "object"
                     THEN ParsedInfo(first_line, url)
                     ELSE FallbackInfo(url)
       IN
         /\ infoCalls' = infoCalls + 1
         /\ IF exc # "none" /\ ~Caught(exc)
              THEN /\ uncaught' = "get_playlist_info"
                   /\ pc' = "exit"
                   /\ exitCode' = 1
                   /\ UNCHANGED playlists_info
              ELSE /\ playlists_info' = Append(playlists_info, info)
                   /\ pc' = IF Len(playlists_info) + 1 = Len(playlist_urls)
                              THEN "save" ELSE "enrich"
                   /\ UNCHANGED << uncaught, exitCode >>
  /\ UNCHANGED << detailed, available, url_i, method_i, all_playlists, result,
                  printStub, jsonStub, attempted, fallbackTried, readded,
                  returned, playlist_urls, written >>

(***************************************************************************)
(* save_playlist_links and the end of main.                                *)
(***************************************************************************)
\* The file is written and main exits 0, or os.makedirs/open raises OSError,
\* which nothing catches.
SavePlaylistLinks ==
  /\ pc = "save"
  /\ \E outcome \in {"ok", "oserror"} :
       IF outcome = "ok"
         THEN written' = TRUE /\ exitCode' = 0 /\ uncaught' = uncaught
         ELSE written' = FALSE /\ exitCode' = 1 /\ uncaught' = "save_playlist_links"
  /\ pc' = "exit"
  /\ UNCHANGED << detailed, available, url_i, method_i, all_playlists, result,
                  printStub, jsonStub, attempted, fallbackTried, readded,
                  returned, playlist_urls, playlists_info, infoCalls >>

Next == CheckYtDlp \/ TryStrategy \/ FallbackDump \/ GetPlaylistInfo \/ SavePlaylistLinks

Spec == Init /\ [][Next]_vars

(***************************************************************************)
(* The discovery against a stub: every --print call that succeeds prints   *)
(* the same lines, and so does every fallback call.                        *)
(***************************************************************************)
\* The stubs: one that prints lines and no JSON, and one that prints nothing
\* but for the fallback call.
StubPairs ==
  {<< s, <<>> >> : s \in StdoutsUpTo(MaxStubLines)}
    \cup {<< <<>>, j >> : j \in JsonStdoutsUpTo(MaxStubLines)}

InitStub ==
  /\ Start
  /\ detailed = FALSE
  /\ \E st \in StubPairs : printStub = << st[1] >> /\ jsonStub = << st[2] >>

NextStub == CheckYtDlp \/ TryStrategy \/ FallbackDump

SpecStub == InitStub /\ [][NextStub]_vars

(***************************************************************************)
(* Properties.                                                             *)
(***************************************************************************)
\* The elements of a sequence.
Range(f) == {f[i] : i \in DOMAIN f}

\* The last URL variant has been left or is being left for the fallback
\* call or for post-processing and the return.
LeavesLoop == pc' = "fallback" \/ returned'

\* After this step the loop is at the first method of the next URL variant,
\* or past the last variant.
GoesToNextUrl ==
  IF url_i < 3
    THEN pc' = "strategies" /\ url_i' = url_i + 1 /\ method_i' = 1
    ELSE LeavesLoop

\* This step is one invocation of the strategy loop.
StrategyStep == pc = "strategies" /\ attempted' # attempted

\* C1: every URL of the list extract_channel_playlists returns holds the
\* marker "playlist?list=" and does not end with "NA", whatever the calls did.
C1_ReturnedUrlsValid ==
  returned =>
    \A i \in 1..Len(playlist_urls) :
      /\ Contains(playlist_urls[i], "playlist?list=")
      /\ ~EndsWith(playlist_urls[i], "NA")

\* C1's case: a list was returned after post-processing discarded a URL that
\* ends with "NA", in a run with a failed call.
C1_Witness ==
  /\ returned
  /\ playlist_urls # <<>>
  /\ \E u \in all_playlists : EndsWith(u, "NA")
  /\ Len(attempted) > 3

\* C2 as claimed: once a playlist is accepted no further invocation of the
\* strategy loop is issued.
C2_NoInvocationAfterFind ==
  [][(pc = "strategies" /\ all_playlists # {}) => attempted' = attempted]_vars

\* C2 amended: once a playlist is accepted, no further method is tried for
\* the URL variant being processed and the fallback call is not issued, but
\* every later URL variant is still invoked once, with its first method.
C2_LaterVariantsFirstMethodOnly ==
  [][
      /\ (StrategyStep /\ all_playlists' # {}) =>
           (GoesToNextUrl /\ pc' # "fallback" /\ ~fallbackTried')
      /\ (pc = "strategies" /\ all_playlists # {}) =>
           (url_i > 1 /\ method_i = 1 /\ attempted' = Append(attempted, <<url_i, 1>>))
    ]_vars

\* C2's case: playlists were accepted at the first URL variant and the second
\* variant was invoked all the same.
C2_Witness ==
  /\ pc = "strategies"
  /\ all_playlists # {}
  /\ url_i = 3
  /\ attempted = << <<1, 1>>, <<2, 1>> >>

\* C3 as claimed: after a timeout or a non-zero exit of a pair that is not
\* the last of its URL variant, the next method of the same variant is tried.
C3_OnlyThatPairSkipped ==
  [][(StrategyStep /\ result' \in {"timeout", "nonzero"} /\ method_i < 3) =>
       (pc' = "strategies" /\ url_i' = url_i /\ method_i' = method_i + 1)]_vars

\* C3 amended: a non-zero exit skips that pair only (the next method of the
\* same URL variant follows if one remains and nothing was accepted before,
\* else the next URL variant); a timeout or another error of the invocation
\* skips the remaining methods of the URL variant too; no exception leaves
\* the discovery, which goes on to the fallback or to its return.
C3_FailureSkips ==
  [][StrategyStep =>
       /\ (result' \in {"timeout", "error"}) => GoesToNextUrl
       /\ (result' = "nonzero" /\ all_playlists = {} /\ method_i < 3) =>
            (pc' = "strategies" /\ url_i' = url_i /\ method_i' = method_i + 1)
       /\ (result' = "nonzero" /\ (all_playlists # {} \/ method_i = 3)) => GoesToNextUrl
       /\ (result' \in {"timeout", "error", "nonzero"}) =>
            (all_playlists' = all_playlists /\ uncaught' = "none")
    ]_vars

\* C3's case: the first method of the first URL variant timed out and the
\* loop is at the second variant.
C3_Witness ==
  /\ pc = "strategies"
  /\ result = "timeout"
  /\ attempted = << <<1, 1>> >>
  /\ url_i = 2
  /\ method_i = 1

\* C4 as claimed: an empty list is returned only after all nine pairs and
\* the fallback call were attempted.
C4_AllStrategiesExhausted ==
  (returned /\ playlist_urls = <<>>) => (Len(attempted) = 9 /\ fallbackTried)

\* C4 amended: an empty list is returned, and main exits with "No playlists
\* found", only after every URL variant was attempted with at least its first
\* method, and after the fallback call unless a URL had been accumulated
\* that post-processing discarded.
C4_EveryVariantAttempted ==
  (returned /\ playlist_urls = <<>>) =>
    /\ pc = "exit"
    /\ \A u \in 1..3 : <<u, 1>> \in Range(attempted)
    /\ fallbackTried \/ all_playlists # {}

\* C4's case: three timeouts, then the fallback call, and nothing found.
C4_Witness ==
  /\ returned
  /\ playlist_urls = <<>>
  /\ Len(attempted) = 3
  /\ fallbackTried
  /\ exitCode = 1

\* C5: no exception leaves get_playlist_info, whatever its call did.
C5_InfoNeverRaises == uncaught # "get_playlist_info"

\* C6: when check_yt_dlp returned false main has exited with code 1 and no
\* discovery call, no enrichment call and no report write happened; when the
\* discovery returned no URL main has exited with code 1 and wrote no report.
C6_ExitsBeforeWork ==
  /\ available = "no" =>
       /\ pc = "exit"
       /\ exitCode = 1
       /\ attempted = <<>>
       /\ ~fallbackTried
       /\ ~returned
       /\ infoCalls = 0
       /\ ~written
  /\ (returned /\ playlist_urls = <<>>) =>
       /\ pc = "exit"
       /\ exitCode = 1
       /\ infoCalls = 0
       /\ ~written

\* C6's case: the probe failed and main has exited.
C6_Witness == available = "no" /\ pc = "exit" /\ exitCode = 1

\* C7: the returned list holds no URL twice.
C7_NoDuplicateUrls ==
  returned =>
    \A i, j \in 1..Len(playlist_urls) : i # j => playlist_urls[i] # playlist_urls[j]

\* C7's case: a list of several URLs returned after some call printed a
\* playlist that an earlier call had printed.
C7_Witness == returned /\ readded /\ Len(playlist_urls) >= 2 /\ Len(attempted) >= 3

\* The text of a URL after its "list=", up to the next "&".
ListParameter(u) ==
  LET rest == SubSeq(u, FirstAt(u, "list=") + 5, Len(u)) IN
    IF Contains(rest, "&") THEN SubSeq(rest, 1, FirstAt(rest, "&") - 1) ELSE rest

\* C8 as claimed: every returned URL is the template followed by an
\* identifier and nothing else, and no two of them name the same identifier.
C8_CanonicalUrls ==
  returned =>
    /\ \A i \in 1..Len(playlist_urls) :
         /\ ListParameter(playlist_urls[i]) # ""
         /\ playlist_urls[i] =
              "https://www.youtube.com/playlist?list=" \o ListParameter(playlist_urls[i])
    /\ \A i, j \in 1..Len(playlist_urls) :
         i # j => ListParameter(playlist_urls[i]) # ListParameter(playlist_urls[j])

\* The values the tool can print that hold the marker: stripped output
\* lines and URL members of the fallback's records.
PrintedUrls ==
  {u \in {Strip(l) : l \in DOMAIN LineUrls} : Contains(u, "playlist?list=")}
    \cup {d.obj[f].s : d \in {e \in JsonLines : e.kind = "object"},
                       f \in {"url", "webpage_url", "original_url"}}

\* C8 amended: every returned URL is either a value the tool printed, kept
\* as it was printed, or the template followed by text of the output.
C8_PrintedOrTemplate ==
  returned =>
    \A i \in 1..Len(playlist_urls) :
      \/ playlist_urls[i] \in PrintedUrls
      \/ StartsWith(playlist_urls[i], "https://www.youtube.com/playlist?list=")

\* C8's case: two returned URLs name the same playlist, one as printed with a
\* further parameter and one built from the template.
C8_Witness ==
  /\ returned
  /\ \E i, j \in 1..Len(playlist_urls) :
       /\ i # j
       /\ ListParameter(playlist_urls[i]) = ListParameter(playlist_urls[j])
  /\ \E i \in 1..Len(playlist_urls) :
       StartsWith(playlist_urls[i], "https://www.youtube.com/playlist?list=PLxyz")

\* C9: a record of the fallback output whose id starts with "PL" but has 10
\* characters or fewer adds no URL for that id.
C9_ShortIdRejected ==
  (fallbackTried /\ result = "ok" /\ jsonStub # <<>>) =>
    \A k \in 1..Len(jsonStub[1]) :
      LET d == jsonStub[1][k] IN
        (d.kind = "object" /\ d.obj.id.t = "str" /\ StartsWith(d.obj.id.s, "PL")
           /\ Len(d.obj.id.s) <= 10) =>
          ("https://www.youtube.com/playlist?list=" \o d.obj.id.s) \notin all_playlists

\* The recognizer of C10: what one output line adds, by the first rule that
\* matches it.
ClaimedUrls(raw) ==
  LET line == Strip(raw) IN
    CASE line = "" \/ line = "NA" -> {}
      [] Contains(line, "playlist?list=") -> {line}
      [] StartsWith(line, "PL") /\ Len(line) > 10 ->
           {"https://www.youtube.com/playlist?list=" \o line}
      [] Contains(line, "watch?v=") /\ Contains(line, "&list=") ->
           {"https://www.youtube.com/playlist?list=" \o ListParameter(line)}
      [] OTHER -> {}

\* C10: a successful strategy call adds, for every line of its output, what
\* the first matching rule gives and nothing else; so the stub of four lines
\* yields exactly the two URLs of PLabc1234567 and PLxyz7654321extra, and the
\* watch-page line the URL of PLfoo1234567.
C10_LineRecognizer ==
  /\ [][(StrategyStep /\ result' = "ok" /\ printStub # <<>>) =>
          all_playlists' =
            all_playlists \cup UNION {ClaimedUrls(l) : l \in Range(printStub[1])}]_vars
  /\ [](returned /\ playlist_urls # <<>> /\ printStub = << StubLines >> =>
          /\ Len(playlist_urls) = 2
          /\ Range(playlist_urls) =
               {"https://www.youtube.com/playlist?list=PLabc1234567",
                "https://www.youtube.com/playlist?list=PLxyz7654321extra"})
  /\ [](returned /\ playlist_urls # <<>> /\ printStub = << << WatchLine >> >> =>
          playlist_urls = << "https://www.youtube.com/playlist?list=PLfoo1234567" >>)

\* C10's case: the stub of four lines answered and two URLs were returned.
C10_Witness ==
  /\ returned
  /\ printStub = << StubLines >>
  /\ result = "ok"
  /\ Len(playlist_urls) = 2

=============================================================================
